---- MODULE Spec2Model ----
(***************************************************************************)
(* Model of custom_components/gpsd_client/sensor.py: the GPSD sensor      *)
(* platform of Home Assistant.  async_setup_platform resolves the unique  *)
(* id of the sensor from GPSD's DEVICES message; GpsdClient.async_update  *)
(* polls GPSD for the first TPV message and stores its fields.            *)
(***************************************************************************)
EXTENDS Integers, Sequences, FiniteSets, TLC

VARIABLES
    cfg_unique_id,  \* config.get(CONF_UNIQUE_ID)
    setup_pc,       \* position of async_setup_platform
    entities,       \* the sensors handed to async_add_entities (their _uid)
    snapshot,       \* GpsdClient: lat, lon, alt, time, speed, climb, mode
    pc,             \* position of each async_update coroutine
    result,         \* what the executor job of each async_update returned
    surfaced,       \* an exception left async_update into the host
    wire,           \* the stream GPSD serves on the connection
    nread           \* messages the last reader took from its stream

vars == <<cfg_unique_id, setup_pc, entities, snapshot, pc, result,
          surfaced, wire, nread>>

(***************************************************************************)
(* Bounds.                                                                 *)
(***************************************************************************)
MaxLen == 2        \* messages on one connection before it ends or fails
MaxPolls == 2      \* async_update coroutines that may overlap

Polls == 1..MaxPolls

(***************************************************************************)
(* Python values.  Every value is a record of the same shape, so values   *)
(* of different Python types compare unequal instead of failing.          *)
(* A float is kept in tenths: PyFloat(521) is 52.1.                            *)
(***************************************************************************)
None == [t |-> "None", i |-> 0, s |-> <<>>]
PyInt(n) == [t |-> "int", i |-> n, s |-> <<>>]
PyFloat(n) == [t |-> "float", i |-> n, s |-> <<>>]
PyStr(cs) == [t |-> "str", i |-> 0, s |-> cs]
DateTime(n) == [t |-> "datetime", i |-> n, s |-> <<>>]

\* {} : the dict with no key.
EmptyDict == [k \in {} |-> None]

\* dict.get(key, default)
Get(d, key, default) == IF key \in DOMAIN d THEN d[key] ELSE default

\* bool(d) of a dict: a dict is true when it has a key.
TruthyAlways(d) == TRUE
Truthy(d) == DOMAIN d # {}

(***************************************************************************)
(* Messages of GPSD's JSON protocol, as dict_stream yields them: a dict   *)
(* with a "class" key; "time" already converted to a datetime.            *)
(***************************************************************************)
MsgVersion == [class |-> "VERSION", release |-> PyStr(<<"3">>)]
MsgSky == [class |-> "SKY", mode |-> PyInt(3), lat |-> PyFloat(10)]

TpvExample == [class |-> "TPV", mode |-> PyInt(3), lat |-> PyFloat(521),
               lon |-> PyFloat(43), time |-> DateTime(1)]
TpvFull == [class |-> "TPV", mode |-> PyInt(2), lat |-> PyFloat(0), lon |-> PyFloat(0),
            alt |-> PyFloat(0), time |-> DateTime(2), speed |-> PyFloat(0),
            climb |-> PyFloat(-5)]
TpvBare == [class |-> "TPV"]
TpvNoFix == [class |-> "TPV", mode |-> PyInt(1), speed |-> PyStr(<<>>)]
TpvNullMode == [class |-> "TPV", mode |-> None, alt |-> PyFloat(70), lat |-> None]
TpvOddMode == [class |-> "TPV", mode |-> PyInt(7), climb |-> PyFloat(3)]
TpvStrMode == [class |-> "TPV", mode |-> PyStr(<<"3">>), lon |-> PyFloat(43)]

TpvMessages == {TpvExample, TpvFull, TpvBare, TpvNoFix, TpvNullMode,
                TpvOddMode, TpvStrMode}
PollMessages == {MsgSky} \cup TpvMessages

\* How a connection ends after its messages: GPSD closes it ("end") or the
\* client layer raises.  ConnectionError is a subclass of OSError, and
\* EnvironmentError is OSError; ValueError (json.JSONDecodeError) is not.
Terminators == {"end", "ConnectionError", "OSError", "ValueError"}
PollTerminators == {"end", "OSError", "ValueError"}

RECURSIVE SeqsUpTo(_, _)
SeqsUpTo(S, n) ==
    IF n = 0 THEN {<<>>}
    ELSE LET shorter == SeqsUpTo(S, n - 1)
         IN  shorter \cup {Append(q, m) : q \in shorter, m \in S}

\* A stream: the messages the connection yields, then how it ends.  No
\* message at all and an exception is a connection that was not established.
StreamsOf(S, T) == [items : SeqsUpTo(S, MaxLen), term : T]
PollStreams == StreamsOf(PollMessages, PollTerminators)

(***************************************************************************)
(* GpsdClient.__init__                                                     *)
(***************************************************************************)
Fields == {"lat", "lon", "alt", "time", "speed", "climb"}

InitSnapshot == [lat |-> None, lon |-> None, alt |-> None, time |-> None,
                 speed |-> None, climb |-> None, mode |-> PyInt(0)]

(***************************************************************************)
(* GpsdClient.async_update.get_tpv: the executor job.                      *)
(***************************************************************************)
\* except Exception: every exception of the client layer is caught.
CatchesNarrow_get_tpv(kind) == kind \in {"ConnectionError", "OSError"}
Catches_get_tpv(kind) == kind \in {"ConnectionError", "OSError", "ValueError"}

RECURSIVE get_tpv_last_from(_, _, _)
get_tpv_last_from(s, i, found) ==
    IF i > Len(s.items)
    THEN [data |-> found, exc |-> "none", nread |-> i - 1]
    ELSE get_tpv_last_from(s, i + 1,
            IF s.items[i]["class"] = "TPV" THEN s.items[i] ELSE found)

RECURSIVE get_tpv_from(_, _)
get_tpv_from(s, i) ==
    IF i > Len(s.items)
    THEN IF s.term = "end" \/ Catches_get_tpv(s.term)
         THEN [data |-> EmptyDict, exc |-> "none", nread |-> i - 1]
         ELSE [data |-> EmptyDict, exc |-> s.term, nread |-> i - 1]
    ELSE IF s.items[i]["class"] = "TPV"
         THEN [data |-> s.items[i], exc |-> "none", nread |-> i]
         ELSE get_tpv_from(s, i + 1)

get_tpv_last(s) == get_tpv_last_from(s, 1, EmptyDict)
get_tpv(s) == get_tpv_from(s, 1)

(***************************************************************************)
(* GpsdClient.async_update after the await: lines 150-158.                 *)
(***************************************************************************)
StoreMerge(old, d) ==
    [lat |-> Get(d, "lat", old.lat), lon |-> Get(d, "lon", old.lon),
     alt |-> Get(d, "alt", old.alt), time |-> Get(d, "time", old.time),
     speed |-> Get(d, "speed", old.speed),
     climb |-> Get(d, "climb", old.climb),
     mode |-> Get(d, "mode", PyInt(0))]
StoreNoDefault(old, d) ==
    [lat |-> Get(d, "lat", None), lon |-> Get(d, "lon", None),
     alt |-> Get(d, "alt", None), time |-> Get(d, "time", None),
     speed |-> Get(d, "speed", None), climb |-> Get(d, "climb", None),
     mode |-> Get(d, "mode", None)]
Store(old, d) ==
    [lat |-> Get(d, "lat", None), lon |-> Get(d, "lon", None),
     alt |-> Get(d, "alt", None), time |-> Get(d, "time", None),
     speed |-> Get(d, "speed", None), climb |-> Get(d, "climb", None),
     mode |-> Get(d, "mode", PyInt(0))]

(***************************************************************************)
(* GpsdClient.native_value, mode_str, extra_state_attributes.              *)
(***************************************************************************)
\* Python's mode == n for an int n.
PyEqInt(v, n) == v.t \in {"int", "float"} /\
                 (IF v.t = "int" THEN v.i = n ELSE v.i = 10 * n)

mode_str_shifted(mode) ==
    IF PyEqInt(mode, 3) THEN "3D Fix"
    ELSE IF PyEqInt(mode, 2) THEN "2D Fix"
    ELSE IF PyEqInt(mode, 1) THEN "No Fix"
    ELSE IF PyEqInt(mode, 0) THEN "Unknown"
    ELSE "No Fix"
mode_str(mode) ==
    IF PyEqInt(mode, 3) THEN "3D Fix"
    ELSE IF PyEqInt(mode, 2) THEN "2D Fix"
    ELSE IF PyEqInt(mode, 1) THEN "No Fix"
    ELSE "Unknown"

native_value == snapshot.mode

extra_state_attributes ==
    [latitude |-> snapshot.lat, longitude |-> snapshot.lon,
     elevation |-> snapshot.alt, utc_time |-> snapshot.time,
     speed |-> snapshot.speed, climb |-> snapshot.climb,
     mode |-> mode_str(snapshot.mode)]

(***************************************************************************)
(* GpsdClient.async_update, one coroutine per p.  It submits get_tpv to    *)
(* the executor and awaits it (PollStart), the job runs on a worker with   *)
(* its own connection (GetTpv), and the coroutine resumes on the event     *)
(* loop, where lines 150-158 run without yielding (PollFinish).            *)
(***************************************************************************)
NoResult == [data |-> EmptyDict, exc |-> "none"]
NoWire == [items |-> <<>>, term |-> "end"]

PollStart(p) ==
    /\ setup_pc = "added"
    /\ pc[p] \in {"idle", "updated", "no_data", "raised"}
    /\ pc' = [pc EXCEPT ![p] = "awaiting"]
    /\ UNCHANGED <<cfg_unique_id, setup_pc, entities, snapshot, result,
                   surfaced, wire, nread>>

RunJob(p, s) ==
    LET r == get_tpv(s)
    IN  /\ pc[p] = "awaiting"
        /\ pc' = [pc EXCEPT ![p] = "job_done"]
        /\ result' = [result EXCEPT ![p] = [data |-> r.data, exc |-> r.exc]]
        /\ nread' = r.nread
        /\ UNCHANGED <<cfg_unique_id, setup_pc, entities, snapshot,
                       surfaced, wire>>

\* The job on a connection whose stream is any of PollStreams.
GetTpv(p) == \E s \in PollStreams : RunJob(p, s)

\* The job on the connection that serves wire.
GetTpvWire(p) == RunJob(p, wire)

PollFinish(p) ==
    /\ pc[p] = "job_done"
    /\ result' = [result EXCEPT ![p] = NoResult]
    /\ IF result[p].exc # "none"
       THEN /\ surfaced' = TRUE
            /\ pc' = [pc EXCEPT ![p] = "raised"]
            /\ UNCHANGED snapshot
       ELSE IF Truthy(result[p].data)
       THEN /\ snapshot' = Store(snapshot, result[p].data)
            /\ pc' = [pc EXCEPT ![p] = "updated"]
            /\ UNCHANGED surfaced
       ELSE /\ pc' = [pc EXCEPT ![p] = "no_data"]
            /\ UNCHANGED <<snapshot, surfaced>>
    /\ UNCHANGED <<cfg_unique_id, setup_pc, entities, wire, nread>>

(***************************************************************************)
(* Spec: a sensor that setup created, polled by overlapping coroutines,    *)
(* each on a fresh connection with a stream of its own.                    *)
(***************************************************************************)
SensorCreated ==
    /\ cfg_unique_id = None
    /\ setup_pc = "added"
    /\ entities = <<PyStr(<<"g", "p", "s">>)>>
    /\ pc = [p \in Polls |-> "idle"]
    /\ result = [p \in Polls |-> NoResult]
    /\ surfaced = FALSE
    /\ nread = 0

Init ==
    /\ SensorCreated
    /\ snapshot = InitSnapshot
    /\ wire = NoWire

Next ==
    \E p \in Polls :
        \/ PollStart(p)
        \/ GetTpv(p)
        \/ PollFinish(p)

Spec == Init /\ [][Next]_vars

(***************************************************************************)
(* StreamSpec: get_tpv and the poll around it on every stream of           *)
(* PollStreams, from a sensor whose snapshot is the initial one or one an  *)
(* earlier poll stored.                                                    *)
(***************************************************************************)
PriorSnapshots == {InitSnapshot, Store(InitSnapshot, TpvFull),
                   Store(InitSnapshot, TpvNullMode)}

InitStream ==
    /\ SensorCreated
    /\ snapshot \in PriorSnapshots
    /\ wire \in PollStreams

NextStream ==
    \/ PollStart(1)
    \/ GetTpvWire(1)
    \/ PollFinish(1)

StreamSpec == InitStream /\ [][NextStream]_vars

(***************************************************************************)
(* Strings that reach slugify are sequences of characters.                 *)
(***************************************************************************)
UpperChars == <<"A", "B", "C", "D", "E", "F", "G", "H", "I", "J", "K", "L",
                "M", "N", "O", "P", "Q", "R", "S", "T", "U", "V", "W", "X",
                "Y", "Z">>
LowerChars == <<"a", "b", "c", "d", "e", "f", "g", "h", "i", "j", "k", "l",
                "m", "n", "o", "p", "q", "r", "s", "t", "u", "v", "w", "x",
                "y", "z">>
DigitChars == {"0", "1", "2", "3", "4", "5", "6", "7", "8", "9"}

\* str.lower() of one character.
lower(c) ==
    IF \E k \in 1..Len(UpperChars) : UpperChars[k] = c
    THEN LowerChars[CHOOSE k \in 1..Len(UpperChars) : UpperChars[k] = c]
    ELSE c

\* slugify(text) of python-slugify with its defaults: lower-case, every run
\* of characters outside [-a-z0-9] becomes one "-", and "-" is stripped from
\* both ends.
SlugChars == {LowerChars[k] : k \in 1..Len(LowerChars)} \cup DigitChars

RECURSIVE slugify_from(_, _, _)
slugify_from(text, k, out) ==
    IF k > Len(text)
    THEN IF out # <<>> /\ out[Len(out)] = "-"
         THEN SubSeq(out, 1, Len(out) - 1)
         ELSE out
    ELSE LET c == lower(text[k])
             d == IF c \in SlugChars THEN c ELSE "-"
         IN  IF d = "-" /\ (out = <<>> \/ out[Len(out)] = "-")
             THEN slugify_from(text, k + 1, out)
             ELSE slugify_from(text, k + 1, Append(out, d))

slugify(text) == slugify_from(text, 1, <<>>)

\* str(v) inside an f-string.
PyFormat(v) == IF v.t = "None" THEN <<"N", "o", "n", "e">> ELSE v.s

\* bool(v) of None or a str.
PyBool(v) == v.t = "str" /\ Len(v.s) > 0

(***************************************************************************)
(* The configuration and the streams of setup.                             *)
(***************************************************************************)
\* vol.Optional(CONF_UNIQUE_ID): cv.string -- absent, or any string
ConfigIds == {None, PyStr(<<>>), PyStr(<<"M", "y", " ", "1">>)}

DevFull == [path |-> PyStr(<<"/", "d", "/", "S", "0">>),
            driver |-> PyStr(<<"U", "b">>),
            subtype |-> PyStr(<<"x", " ", "1">>)]
DevOther == [path |-> PyStr(<<"/", "d", "/", "S", "1">>),
             driver |-> PyStr(<<"U", "b">>)]
DevPathOnly == [path |-> PyStr(<<"/", "d", "/", "S", "0">>)]

DevicesNone == [class |-> "DEVICES", devices |-> <<>>]
DevicesOne == [class |-> "DEVICES", devices |-> <<DevFull>>]
DevicesTwo == [class |-> "DEVICES", devices |-> <<DevFull, DevOther>>]
DevicesOther == [class |-> "DEVICES", devices |-> <<DevOther, DevFull>>]
DevicesPathOnly == [class |-> "DEVICES", devices |-> <<DevPathOnly>>]
DevicesBlank == [class |-> "DEVICES", devices |-> <<EmptyDict>>]

DevicesMessages == {DevicesNone, DevicesOne, DevicesTwo, DevicesOther,
                    DevicesPathOnly, DevicesBlank}
SetupMessages == {MsgVersion, TpvExample} \cup DevicesMessages
SetupStreams == StreamsOf(SetupMessages, Terminators)

(***************************************************************************)
(* async_setup_platform                                                    *)
(***************************************************************************)
\* except (ConnectionError, EnvironmentError)
Catches_setup(kind) == kind \in {"ConnectionError", "OSError"}

\* if not unique_id: unique_id = slugify(...)
ResolveAlwaysSlug(unique_id, slug) == PyStr(slug)
Resolve(unique_id, slug) ==
    IF ~PyBool(unique_id) THEN PyStr(slug) ELSE unique_id

\* How the try block is left on an exception of the given kind.
Raise(kind, unique_id, n) ==
    [pc |-> IF Catches_setup(kind) THEN "returned_false" ELSE "raised",
     uid |-> unique_id, nread |-> n]

RECURSIVE setup_from(_, _, _)
setup_from(unique_id, s, k) ==
    IF k > Len(s.items)
    THEN IF s.term = "end"
         THEN [pc |-> "added", uid |-> unique_id, nread |-> k - 1]
         ELSE Raise(s.term, unique_id, k - 1)
    ELSE IF s.items[k]["class"] = "DEVICES"
         THEN LET devices == s.items[k]["devices"]
              IN  IF Len(devices) = 0
                  THEN Raise("IndexError", unique_id, k)
                  ELSE LET path == Get(devices[1], "path", None)
                           driver == Get(devices[1], "driver", None)
                           subtype == Get(devices[1], "subtype", None)
                           text == PyFormat(path) \o <<"_">> \o
                                   PyFormat(driver) \o <<"_">> \o
                                   PyFormat(subtype)
                       IN  [pc |-> "added",
                            uid |-> Resolve(unique_id, slugify(text)),
                            nread |-> k]
         ELSE setup_from(unique_id, s, k + 1)

async_setup_platform(unique_id, s) == setup_from(unique_id, s, 1)

Setup ==
    /\ setup_pc = "pending"
    /\ \E s \in SetupStreams :
          LET r == async_setup_platform(cfg_unique_id, s)
          IN  /\ setup_pc' = r.pc
              /\ entities' = IF r.pc = "added" THEN <<r.uid>> ELSE <<>>
              /\ nread' = r.nread
              /\ wire' = s
    /\ UNCHANGED <<cfg_unique_id, snapshot, pc, result, surfaced>>

(***************************************************************************)
(* SetupSpec: one configuration entry of the platform is set up.           *)
(***************************************************************************)
InitSetup ==
    /\ cfg_unique_id \in ConfigIds
    /\ setup_pc = "pending"
    /\ entities = <<>>
    /\ snapshot = InitSnapshot
    /\ pc = [p \in Polls |-> "idle"]
    /\ result = [p \in Polls |-> NoResult]
    /\ surfaced = FALSE
    /\ wire = NoWire
    /\ nread = 0

NextSetup == Setup

SetupSpec == InitSetup /\ [][NextSetup]_vars

(***************************************************************************)
(* Vocabulary of the properties.                                           *)
(***************************************************************************)
IsTpv(d) == "class" \in DOMAIN d /\ d["class"] = "TPV"

HasClass(s, c) == \E k \in 1..Len(s.items) : s.items[k]["class"] = c

\* The index of the first message of class c in a stream that has one.
FirstOf(s, c) ==
    CHOOSE k \in 1..Len(s.items) :
        /\ s.items[k]["class"] = c
        /\ \A j \in 1..(k - 1) : s.items[j]["class"] # c

\* The seven fields one TPV message decodes to.
Decoded(m) ==
    [f \in Fields \cup {"mode"} |->
        IF f \in DOMAIN m THEN m[f]
        ELSE IF f = "mode" THEN PyInt(0) ELSE None]

\* Coroutine p resumes from its await in this step.
Resumes(p) == pc[p] = "job_done" /\ pc'[p] # "job_done"

ModesInRange == {PyInt(0), PyInt(1), PyInt(2), PyInt(3)}

(***************************************************************************)
(* C1: a poll whose stream has no TPV message -- the connection fails,     *)
(* the client layer raises, or the stream ends -- returns normally to the  *)
(* host and leaves all seven fields of the snapshot as they were.          *)
(***************************************************************************)
C1_NoDataKeepsSnapshot ==
    /\ [](~surfaced)
    /\ [][(Resumes(1) /\ ~HasClass(wire, "TPV")) =>
             (snapshot' = snapshot /\ pc'[1] = "no_data")]_vars

C1_Witness ==
    /\ pc[1] = "no_data"
    /\ wire = [items |-> <<MsgSky>>, term |-> "ValueError"]
    /\ snapshot # InitSnapshot
    /\ nread = 1

(***************************************************************************)
(* C2: a poll that found a TPV message sets each of lat, lon, alt, time,   *)
(* speed and climb to the message's value when the message has the field   *)
(* and to None when it has not, whatever the snapshot held before.         *)
(***************************************************************************)
C2_FieldsReplaced ==
    [][\A p \in Polls :
          (Resumes(p) /\ IsTpv(result[p].data)) =>
              /\ pc'[p] = "updated"
              /\ \A f \in Fields :
                    snapshot'[f] = IF f \in DOMAIN result[p].data
                                   THEN result[p].data[f]
                                   ELSE None]_vars

C2_Witness ==
    /\ pc[1] = "updated"
    /\ pc[2] = "updated"
    /\ snapshot.lat = None
    /\ snapshot.lon = None
    /\ snapshot.climb = PyFloat(3)

(***************************************************************************)
(* C3: a setup stream that ends without a DEVICES message is a handled     *)
(* setup failure: setup does not raise and creates no sensor.              *)
(***************************************************************************)
C3_NoDevicesNoSensor ==
    (setup_pc # "pending" /\ wire.term = "end" /\ ~HasClass(wire, "DEVICES"))
        => (setup_pc # "raised" /\ entities = <<>>)

(***************************************************************************)
(* C4: a setup stream with a DEVICES message always resolves: setup does   *)
(* not raise, creates exactly one sensor, and without an explicit id the   *)
(* unique id is the same for every stream whose first DEVICES message has  *)
(* the same path, driver and subtype in its first entry.                   *)
(***************************************************************************)
FirstDevice(s) == s.items[FirstOf(s, "DEVICES")]["devices"][1]

C4_DevicesAlwaysResolve ==
    (setup_pc # "pending" /\ HasClass(wire, "DEVICES")) =>
        /\ setup_pc = "added"
        /\ Len(entities) = 1
        /\ cfg_unique_id = None =>
              \A s \in SetupStreams :
                  (/\ HasClass(s, "DEVICES")
                   /\ Len(s.items[FirstOf(s, "DEVICES")]["devices"]) > 0
                   /\ \A f \in {"path", "driver", "subtype"} :
                         Get(FirstDevice(s), f, None) =
                         Get(FirstDevice(wire), f, None))
                  => async_setup_platform(None, s).uid = entities[1]

(***************************************************************************)
(* C5: an explicit unique_id of the configuration, any string, is the      *)
(* unique id of the sensor setup creates, whatever DEVICES says.           *)
(***************************************************************************)
C5_ExplicitIdVerbatim ==
    (cfg_unique_id.t = "str" /\ setup_pc = "added")
        => entities = <<cfg_unique_id>>

\* C5 as amended: an explicit unique_id that is not the empty string is the
\* unique id of the sensor setup creates, whatever DEVICES says.
C5_NonEmptyIdVerbatim ==
    (cfg_unique_id.t = "str" /\ cfg_unique_id.s # <<>> /\ setup_pc = "added")
        => entities = <<cfg_unique_id>>

C5_Witness ==
    /\ cfg_unique_id = PyStr(<<"M", "y", " ", "1">>)
    /\ setup_pc = "added"
    /\ wire.items = <<MsgVersion, DevicesOne>>
    /\ nread = 2
    /\ entities = <<cfg_unique_id>>

(***************************************************************************)
(* C6: when the connection cannot be established or the client layer       *)
(* fails while setup reads the stream, setup returns without raising and   *)
(* without creating a sensor.                                              *)
(***************************************************************************)
C6_SetupFailureHandled ==
    (setup_pc # "pending" /\ wire.term # "end" /\ ~HasClass(wire, "DEVICES"))
        => (setup_pc = "returned_false" /\ entities = <<>>)

(***************************************************************************)
(* C7: the presented state is the snapshot's mode, and the presented mode  *)
(* label is "3D Fix" for 3, "2D Fix" for 2, "No Fix" for 1 and "Unknown"   *)
(* for 0 and for every other value.                                        *)
(***************************************************************************)
C7_ModeLabel ==
    /\ native_value = snapshot.mode
    /\ snapshot.mode = PyInt(3) => extra_state_attributes.mode = "3D Fix"
    /\ snapshot.mode = PyInt(2) => extra_state_attributes.mode = "2D Fix"
    /\ snapshot.mode = PyInt(1) => extra_state_attributes.mode = "No Fix"
    /\ snapshot.mode = PyInt(0) => extra_state_attributes.mode = "Unknown"
    /\ snapshot.mode \notin ModesInRange
          => extra_state_attributes.mode = "Unknown"

C7_Witness ==
    /\ \E p \in Polls : pc[p] = "updated"
    /\ snapshot.mode = PyInt(7)
    /\ extra_state_attributes.mode = "Unknown"

C9_FirstTpvWins ==
    HasClass(wire, "TPV") =>
        /\ pc[1] = "job_done" =>
              /\ result[1].data = wire.items[FirstOf(wire, "TPV")]
              /\ nread = FirstOf(wire, "TPV")
        /\ pc[1] \in {"updated", "no_data", "raised"} =>
              /\ pc[1] = "updated"
              /\ snapshot = Decoded(wire.items[FirstOf(wire, "TPV")])
              /\ nread = FirstOf(wire, "TPV")

C9_Witness ==
    /\ pc[1] = "updated"
    /\ wire.items = <<TpvOddMode, TpvExample>>
    /\ snapshot = Decoded(TpvOddMode)

(***************************************************************************)
(* C10: with overlapping polls that complete in any order, the snapshot    *)
(* is always the initial one or the whole decode of one TPV message a      *)
(* poll returned, and a poll without data never changes it.                *)
(***************************************************************************)
C10_OverlapKeepsSnapshotWhole ==
    /\ [](snapshot = InitSnapshot \/
          \E m \in TpvMessages : snapshot = Decoded(m))
    /\ [][snapshot' # snapshot =>
             \E p \in Polls : /\ Resumes(p)
                              /\ IsTpv(result[p].data)
                              /\ snapshot' = Decoded(result[p].data)]_vars
    /\ [][\A p \in Polls :
             (Resumes(p) /\ ~IsTpv(result[p].data)) =>
                 snapshot' = snapshot]_vars

C10_Witness ==
    /\ pc[1] = "job_done"
    /\ pc[2] = "job_done"
    /\ result[1].data = TpvExample
    /\ result[2].data = EmptyDict
    /\ snapshot = Decoded(TpvFull)

====
